---- MODULE Spec2Model ----
(***************************************************************************)
(* Model of examples/uev_subscriber.c: an MQTT subscriber wired into the   *)
(* libuev event loop.  The state is main's position, the command line, the *)
(* socket, the MQTT client's fields the program reads or writes, the three *)
(* static watchers, the callback in progress and the MQTT library call in  *)
(* progress.  The MQTT client library and the event loop are external:     *)
(* the library may call any installed hook while one of its functions      *)
(* runs, and the loop may dispatch any callback of a registered watcher.   *)
(***************************************************************************)
EXTENDS Integers, Sequences, FiniteSets, TLC

VARIABLES
    pc,           \* main's position (the next statement of main to run)
    argc, argv,   \* the command line
    addr, port, topic,   \* main's three locals chosen from the command line
    sockfd,       \* main's sockfd (NoFd before open_nb_socket has returned)
    client,       \* the fields of struct mqtt_client the program touches
    lib,          \* the MQTT library function in progress, "none" outside
    budget,       \* hook calls the library call in progress may still make
    cb,           \* the watcher callback in progress: [name, events]
    notified,     \* mqtt_notify_* calls made by the current/last callback
    published,    \* the most recent publish_callback call and what it did
    w_sockfd, w_pingtimer, w_acktimer,   \* the three static watchers
    now,          \* the value MQTT_PAL_TIME() returns
    lastSet,      \* the most recent uev_timer_set call made by a hook
    lastEnable,   \* the most recent enable_sendready_event call
    op,           \* the operation that produced this state
    log,          \* the setup calls main has made, in order
    failed,       \* the setup steps that reported failure
    closed,       \* the descriptors passed to close(), in order
    exits,        \* number of exit_example calls
    exitStatus    \* <<>> while the process runs, <<status>> once it has exited

vars == <<pc, argc, argv, addr, port, topic, sockfd, client, lib, budget, cb,
          notified, published, w_sockfd, w_pingtimer, w_acktimer, now, lastSet,
          lastEnable, op, log, failed, closed, exits, exitStatus>>

---------------------------------------------------------------------------
(* Bounds of the model *)

MaxArgc == 5          \* command lines of 1..MaxArgc words
MaxHookCalls == 2     \* hook calls one MQTT library call may make
MaxTicks == 1         \* seconds the clock may advance during a run
MaxAhead == 1         \* near deadlines range over now-1 .. now+MaxAhead

(* Program constants *)

EXIT_SUCCESS == 0
EXIT_FAILURE == 1
NoFd == -1            \* open_nb_socket's failure value; "no socket" for exit_example
StartTime == 100      \* the clock value at program start
Fds == {3}            \* descriptors open_nb_socket may return
HalfWord == 2^16      \* an int is two half words wide
IntMax == (HalfWord \div 2 - 1) * HalfWord + (HalfWord - 1)
SecToMs == 1000

UEV_READ == "UEV_READ"
UEV_WRITE == "UEV_WRITE"
UEV_ERROR == "UEV_ERROR"
AllEvents == {UEV_READ, UEV_WRITE, UEV_ERROR}

MQTT_OK == "MQTT_OK"
MQTT_ERROR == "MQTT_ERROR"

DefaultAddr == "test.mosquitto.org"
DefaultPort == "1883"
DefaultTopic == "datetime"
ArgValues == {"a", "b", "c"}   \* command-line words
MainArgcs == {1, 4}             \* the command lines of the full model: none or all
MainArgValues == {"a"}

---------------------------------------------------------------------------
(* The arithmetic of "int timeout = t ? (t - MQTT_PAL_TIME()) * 1000 : 0":  *)
(* the product is formed in mqtt_pal_time_t (64 bits, no overflow for the  *)
(* differences modelled) and converted to a 32-bit int, which keeps its    *)
(* low 32 bits.  Mul1000ToInt(d) is that conversion of d * 1000, computed  *)
(* half word by half word.                                                 *)

Mul1000ToInt(d) ==
    LET dl == d % HalfWord
        dh == d \div HalfWord
        lo == (dl * SecToMs) % HalfWord
        carry == (dl * SecToMs) \div HalfWord
        hi == (dh * SecToMs + carry) % HalfWord
    IN  IF hi >= HalfWord \div 2 THEN (hi - HalfWord) * HalfWord + lo
                                 ELSE hi * HalfWord + lo

\* the smallest difference t - now whose product with 1000 exceeds INT_MAX
FarAhead == IntMax \div SecToMs + 1

\* int timeout = t ? (t - MQTT_PAL_TIME()) * 1000 : 0;
Timeout(t, time) == IF t # 0 THEN Mul1000ToInt(t - time) ELSE 0

\* the deadlines the MQTT client may pass to a timer hook at clock value 'time'
Deadlines(time) == {0} \cup {time + d : d \in (0 - 1)..MaxAhead} \cup {time + FarAhead}

---------------------------------------------------------------------------
(* Command line *)

\* a slip in the topic's index: argv[2] where argv[3] is meant
ChooseTopicWrongIndex(n, av) == IF n > 3 THEN av[3] ELSE DefaultTopic

\* main, lines 99-118
ChooseAddr(n, av) == IF n > 1 THEN av[2] ELSE DefaultAddr
ChoosePort(n, av) == IF n > 2 THEN av[3] ELSE DefaultPort
ChooseTopic(n, av) == IF n > 3 THEN av[4] ELSE DefaultTopic

---------------------------------------------------------------------------
(* Initial state: the process has just entered main *)

HookNames == {"set_ping_timer", "set_ack_timeout", "enable_sendready_event"}

\* static uev_t w_pingtimer, w_acktimer, w_sockfd: zero-initialised statics
ZeroIo == [registered |-> FALSE, fd |-> 0, events |-> {}, cb |-> "none"]
ZeroTimer == [registered |-> FALSE, timeout |-> 0, period |-> 0, cb |-> "none"]

NoCallback == [name |-> "none", watcher |-> "none", events |-> {}, active |-> FALSE]
NoSet == [hook |-> "none", watcher |-> "none", registered |-> FALSE,
          t |-> 0, now |-> 0, timeout |-> 0, period |-> 0]
NoEnable == [called |-> FALSE, enabled |-> 0, registered |-> FALSE]
NoPublish == [delivered |-> FALSE, topic |-> <<>>, msg |-> <<>>,
              printedTopic |-> <<>>, printedMsg |-> <<>>, lines |-> 0,
              mallocs |-> 0, frees |-> 0]

InitRest ==
    /\ pc = "args"
    /\ addr = "" /\ port = "" /\ topic = ""
    /\ sockfd = NoFd
    /\ client = [inited |-> FALSE, hooks |-> {}, error |-> "unset"]
    /\ lib = "none"
    /\ budget = 0
    /\ cb = NoCallback
    /\ notified = <<>>
    /\ published = NoPublish
    /\ w_sockfd = ZeroIo
    /\ w_pingtimer = ZeroTimer
    /\ w_acktimer = ZeroTimer
    /\ now = StartTime
    /\ lastSet = NoSet
    /\ lastEnable = NoEnable
    /\ op = "start"
    /\ log = <<>>
    /\ failed = {}
    /\ closed = <<>>
    /\ exits = 0
    /\ exitStatus = <<>>

Init ==
    /\ argc \in MainArgcs
    /\ argv \in [1..argc -> MainArgValues]
    /\ InitRest

\* every command line of 1..MaxArgc words over ArgValues
InitArgs ==
    /\ argc \in 1..MaxArgc
    /\ argv \in [1..argc -> ArgValues]
    /\ InitRest

argVars == <<argc, argv, addr, port, topic>>
watchVars == <<w_sockfd, w_pingtimer, w_acktimer>>
hookVars == <<lastSet, lastEnable>>
cbVars == <<cb, notified, published>>
exitVars == <<closed, exits, exitStatus>>

Call(name, arg) == [call |-> name, arg |-> arg]

---------------------------------------------------------------------------
(* main *)

\* exit_example without its sockfd != -1 test
ExitExampleAlwaysClose(status, fd) ==
    /\ closed' = Append(closed, fd)
    /\ exits' = exits + 1
    /\ exitStatus' = <<status>>
    /\ pc' = "done"

\* exit_example(status, fd): close the socket if there is one, then exit
ExitExample(status, fd) ==
    /\ closed' = IF fd # NoFd THEN Append(closed, fd) ELSE closed
    /\ exits' = exits + 1
    /\ exitStatus' = <<status>>
    /\ pc' = "done"

\* lines 99-118: choose addr, port and topic
ParseArgs ==
    /\ pc = "args"
    /\ addr' = ChooseAddr(argc, argv)
    /\ port' = ChoosePort(argc, argv)
    /\ topic' = ChooseTopic(argc, argv)
    /\ pc' = "uev_init"
    /\ op' = "ParseArgs"
    /\ UNCHANGED <<argc, argv, sockfd, client, lib, budget, cbVars, watchVars,
                   now, hookVars, log, failed, exitVars>>

\* lines 120-124: uev_init, fatal on failure
UevInit(ok) ==
    /\ pc = "uev_init"
    /\ log' = Append(log, Call("uev_init", ""))
    /\ op' = "UevInit"
    /\ IF ok
       THEN /\ pc' = "open_nb_socket"
            /\ UNCHANGED <<failed, exitVars>>
       ELSE /\ failed' = failed \cup {"uev_init"}
            /\ ExitExample(EXIT_FAILURE, NoFd)
    /\ UNCHANGED <<argVars, sockfd, client, lib, budget, cbVars, watchVars,
                   now, hookVars>>

\* lines 126-132: open_nb_socket(addr, port), fatal when it returns -1
OpenSocket(fd) ==
    /\ pc = "open_nb_socket"
    /\ log' = Append(log, Call("open_nb_socket", addr))
    /\ op' = "OpenSocket"
    /\ sockfd' = fd
    /\ IF fd = NoFd
       THEN /\ failed' = failed \cup {"open_nb_socket"}
            /\ ExitExample(EXIT_FAILURE, fd)
       ELSE /\ pc' = "mqtt_init"
            /\ UNCHANGED <<failed, exitVars>>
    /\ UNCHANGED <<argVars, client, lib, budget, cbVars, watchVars, now, hookVars>>

\* lines 134-141: mqtt_init, then the three hooks are installed
MqttInit ==
    /\ pc = "mqtt_init"
    /\ client' = [inited |-> TRUE, hooks |-> HookNames, error |-> "unset"]
    /\ log' = log \o <<Call("mqtt_init", ""), Call("install_hooks", "")>>
    /\ pc' = "mqtt_connect"
    /\ op' = "MqttInit"
    /\ UNCHANGED <<argVars, sockfd, lib, budget, cbVars, watchVars, now,
                   hookVars, failed, exitVars>>

\* line 143: mqtt_connect is entered
MqttConnect ==
    /\ pc = "mqtt_connect"
    /\ lib' = "mqtt_connect"
    /\ budget' = MaxHookCalls
    /\ log' = Append(log, Call("mqtt_connect", ""))
    /\ pc' = "in_connect"
    /\ op' = "MqttConnect"
    /\ UNCHANGED <<argVars, sockfd, client, cbVars, watchVars, now, hookVars,
                   failed, exitVars>>

\* line 143: mqtt_connect returns, leaving its result in client.error
MqttConnectReturn(err) ==
    /\ pc = "in_connect"
    /\ lib = "mqtt_connect"
    /\ client' = [client EXCEPT !.error = err]
    /\ failed' = IF err # MQTT_OK THEN failed \cup {"mqtt_connect"} ELSE failed
    /\ lib' = "none"
    /\ budget' = 0
    /\ pc' = "check_error"
    /\ op' = "MqttConnectReturn"
    /\ UNCHANGED <<argVars, sockfd, cbVars, watchVars, now, hookVars, log, exitVars>>

\* lines 145-149: check that the client has no error
CheckError ==
    /\ pc = "check_error"
    /\ op' = "CheckError"
    /\ IF client.error # MQTT_OK
       THEN ExitExample(EXIT_FAILURE, sockfd)
       ELSE /\ pc' = "uev_io_init"
            /\ UNCHANGED exitVars
    /\ UNCHANGED <<argVars, sockfd, client, lib, budget, cbVars, watchVars, now,
                   hookVars, log, failed>>

\* lines 151-154: uev_io_init(&uev, &w_sockfd, sockfd_cb, &client, sockfd, UEV_READ | UEV_ERROR)
UevIoInit(ok) ==
    /\ pc = "uev_io_init"
    /\ log' = Append(log, Call("uev_io_init", ""))
    /\ op' = "UevIoInit"
    /\ IF ok
       THEN /\ w_sockfd' = [registered |-> TRUE, fd |-> sockfd,
                            events |-> {UEV_READ, UEV_ERROR}, cb |-> "sockfd_cb"]
            /\ pc' = "pingtimer_init"
            /\ UNCHANGED <<failed, exitVars>>
       ELSE /\ failed' = failed \cup {"uev_io_init"}
            /\ ExitExample(EXIT_FAILURE, sockfd)
            /\ UNCHANGED w_sockfd
    /\ UNCHANGED <<argVars, sockfd, client, lib, budget, cbVars, w_pingtimer,
                   w_acktimer, now, hookVars>>

\* lines 156-159: uev_timer_init(&uev, &w_pingtimer, pingtimer_cb, &client, 0, 0)
PingTimerInit(ok) ==
    /\ pc = "pingtimer_init"
    /\ log' = Append(log, Call("uev_timer_init", "w_pingtimer"))
    /\ op' = "PingTimerInit"
    /\ IF ok
       THEN /\ w_pingtimer' = [registered |-> TRUE, timeout |-> 0, period |-> 0,
                               cb |-> "pingtimer_cb"]
            /\ pc' = "acktimer_init"
            /\ UNCHANGED <<failed, exitVars>>
       ELSE /\ failed' = failed \cup {"uev_timer_init:w_pingtimer"}
            /\ ExitExample(EXIT_FAILURE, sockfd)
            /\ UNCHANGED w_pingtimer
    /\ UNCHANGED <<argVars, sockfd, client, lib, budget, cbVars, w_sockfd,
                   w_acktimer, now, hookVars>>

\* main going from the last watcher straight to uev_run, the subscribe left out
AckTimerInitNoSubscribe(ok) ==
    /\ pc = "acktimer_init"
    /\ log' = Append(log, Call("uev_timer_init", "w_acktimer"))
    /\ op' = "AckTimerInit"
    /\ IF ok
       THEN /\ w_acktimer' = [registered |-> TRUE, timeout |-> 0, period |-> 0,
                              cb |-> "acktimer_cb"]
            /\ pc' = "uev_run"
            /\ UNCHANGED <<failed, exitVars>>
       ELSE /\ failed' = failed \cup {"uev_timer_init:w_acktimer"}
            /\ ExitExample(EXIT_FAILURE, sockfd)
            /\ UNCHANGED w_acktimer
    /\ UNCHANGED <<argVars, sockfd, client, lib, budget, cbVars, w_sockfd,
                   w_pingtimer, now, hookVars>>

\* lines 161-164: uev_timer_init(&uev, &w_acktimer, acktimer_cb, &client, 0, 0)
AckTimerInit(ok) ==
    /\ pc = "acktimer_init"
    /\ log' = Append(log, Call("uev_timer_init", "w_acktimer"))
    /\ op' = "AckTimerInit"
    /\ IF ok
       THEN /\ w_acktimer' = [registered |-> TRUE, timeout |-> 0, period |-> 0,
                              cb |-> "acktimer_cb"]
            /\ pc' = "mqtt_subscribe"
            /\ UNCHANGED <<failed, exitVars>>
       ELSE /\ failed' = failed \cup {"uev_timer_init:w_acktimer"}
            /\ ExitExample(EXIT_FAILURE, sockfd)
            /\ UNCHANGED w_acktimer
    /\ UNCHANGED <<argVars, sockfd, client, lib, budget, cbVars, w_sockfd,
                   w_pingtimer, now, hookVars>>

\* line 167: mqtt_subscribe(&client, topic, 0) is entered
MqttSubscribe ==
    /\ pc = "mqtt_subscribe"
    /\ lib' = "mqtt_subscribe"
    /\ budget' = MaxHookCalls
    /\ log' = Append(log, Call("mqtt_subscribe", topic))
    /\ pc' = "in_subscribe"
    /\ op' = "MqttSubscribe"
    /\ UNCHANGED <<argVars, sockfd, client, cbVars, watchVars, now, hookVars,
                   failed, exitVars>>

\* lines 167-171: mqtt_subscribe returns; its result is not looked at
MqttSubscribeReturn(err) ==
    /\ pc = "in_subscribe"
    /\ lib = "mqtt_subscribe"
    /\ client' = [client EXCEPT !.error = err]
    /\ failed' = IF err # MQTT_OK THEN failed \cup {"mqtt_subscribe"} ELSE failed
    /\ lib' = "none"
    /\ budget' = 0
    /\ pc' = "uev_run"
    /\ op' = "MqttSubscribeReturn"
    /\ UNCHANGED <<argVars, sockfd, cbVars, watchVars, now, hookVars, log, exitVars>>

\* line 173: uev_run(&uev, 0) is entered
UevRun ==
    /\ pc = "uev_run"
    /\ log' = Append(log, Call("uev_run", ""))
    /\ pc' = "loop"
    /\ op' = "UevRun"
    /\ UNCHANGED <<argVars, sockfd, client, lib, budget, cbVars, watchVars, now,
                   hookVars, failed, exitVars>>

\* lines 173-183: uev_run returns rc; main reports it and exits with EXIT_SUCCESS
UevRunReturn(rc) ==
    /\ pc = "loop"
    /\ ~cb.active
    /\ op' = "UevRunReturn"
    /\ ExitExample(EXIT_SUCCESS, sockfd)
    /\ UNCHANGED <<argVars, sockfd, client, lib, budget, cbVars, watchVars, now,
                   hookVars, log, failed>>

---------------------------------------------------------------------------
(* The hooks the MQTT client calls while one of its functions runs *)

HookEnabled(h) ==
    /\ lib # "none"
    /\ h \in client.hooks
    /\ budget > 0

\* uev_timer_set(w, timeout, period) stores the two values in a registered
\* watcher; a watcher that belongs to no event loop is left as it is
UevTimerSet(w, timeout, period) ==
    IF w.registered THEN [w EXCEPT !.timeout = timeout, !.period = period] ELSE w

\* uev_io_set(w, fd, events), likewise
UevIoSet(w, fd, events) ==
    IF w.registered THEN [w EXCEPT !.fd = fd, !.events = events] ELSE w

\* lines 70-74
set_ping_timer(t) ==
    /\ HookEnabled("set_ping_timer")
    /\ LET timeout == Timeout(t, now)
       IN  /\ w_pingtimer' = UevTimerSet(w_pingtimer, timeout, 0)
           /\ lastSet' = [hook |-> "set_ping_timer", watcher |-> "w_pingtimer",
                          registered |-> w_pingtimer.registered,
                          t |-> t, now |-> now, timeout |-> timeout, period |-> 0]
    /\ budget' = budget - 1
    /\ op' = "set_ping_timer"
    /\ UNCHANGED <<pc, argVars, sockfd, client, lib, cbVars, w_sockfd, w_acktimer,
                   now, lastEnable, log, failed, exitVars>>

\* lines 76-80: the timeout is set on w_pingtimer
set_ack_timeout(t) ==
    /\ HookEnabled("set_ack_timeout")
    /\ LET timeout == Timeout(t, now)
       IN  /\ w_pingtimer' = UevTimerSet(w_pingtimer, timeout, 0)
           /\ lastSet' = [hook |-> "set_ack_timeout", watcher |-> "w_pingtimer",
                          registered |-> w_pingtimer.registered,
                          t |-> t, now |-> now, timeout |-> timeout, period |-> 0]
    /\ budget' = budget - 1
    /\ op' = "set_ack_timeout"
    /\ UNCHANGED <<pc, argVars, sockfd, client, lib, cbVars, w_sockfd, w_acktimer,
                   now, lastEnable, log, failed, exitVars>>

\* enable_sendready_event with "events = UEV_WRITE" for "events |= UEV_WRITE"
enable_sendready_eventAssign(enabled) ==
    /\ HookEnabled("enable_sendready_event")
    /\ LET events == IF enabled # 0 THEN {UEV_WRITE} ELSE {UEV_READ, UEV_ERROR}
       IN  w_sockfd' = UevIoSet(w_sockfd, w_sockfd.fd, events)
    /\ lastEnable' = [called |-> TRUE, enabled |-> enabled,
                       registered |-> w_sockfd.registered]
    /\ budget' = budget - 1
    /\ op' = "enable_sendready_event"
    /\ UNCHANGED <<pc, argVars, sockfd, client, lib, cbVars, w_pingtimer,
                   w_acktimer, now, lastSet, log, failed, exitVars>>

\* lines 82-90
enable_sendready_event(enabled) ==
    /\ HookEnabled("enable_sendready_event")
    /\ LET events == IF enabled # 0 THEN {UEV_READ, UEV_ERROR} \cup {UEV_WRITE}
                                    ELSE {UEV_READ, UEV_ERROR}
       IN  w_sockfd' = UevIoSet(w_sockfd, w_sockfd.fd, events)
    /\ lastEnable' = [called |-> TRUE, enabled |-> enabled,
                       registered |-> w_sockfd.registered]
    /\ budget' = budget - 1
    /\ op' = "enable_sendready_event"
    /\ UNCHANGED <<pc, argVars, sockfd, client, lib, cbVars, w_pingtimer,
                   w_acktimer, now, lastSet, log, failed, exitVars>>

---------------------------------------------------------------------------
(* The event loop: uev_run dispatches the callbacks of registered watchers *)

LoopIdle == pc = "loop" /\ ~cb.active /\ lib = "none"

\* the masks the loop may deliver for the socket: what the watcher asks for
IoEvents(w) == SUBSET w.events \ {{}}

\* an armed timer expires (UEV_READ); reading any timer may fail (UEV_ERROR)
TimerEvents(w) == IF w.timeout > 0 THEN {{UEV_READ}, {UEV_ERROR}} ELSE {{UEV_ERROR}}

\* a timer with period 0 is one-shot: dispatching it disarms it
Disarm(w) == IF w.period = 0 THEN [w EXCEPT !.timeout = 0] ELSE w

\* sockfd_cb with its two tests in the other order
sockfd_cbWriteFirst(events) ==
    IF UEV_WRITE \in events THEN "mqtt_notify_send"
    ELSE IF UEV_READ \in events THEN "mqtt_notify_recv"
    ELSE "none"

\* lines 26-42: the first mqtt_notify_* call sockfd_cb makes for a mask, "none"
\* if it makes none (UEV_ERROR only prints)
sockfd_cb(events) ==
    IF UEV_READ \in events THEN "mqtt_notify_recv"
    ELSE IF UEV_WRITE \in events THEN "mqtt_notify_send"
    ELSE "none"

\* lines 38-41: the mqtt_notify_* call sockfd_cb makes after 'call' has returned
SockfdNext(call, events) ==
    IF call = "mqtt_notify_recv" /\ UEV_WRITE \in events THEN "mqtt_notify_send"
    ELSE "none"

\* pingtimer_cb notifying the wrong timer
pingtimer_cbWrongNotify(events) == "mqtt_notify_acktimer"

\* lines 44-53: pingtimer_cb calls mqtt_notify_pingtimer, whatever the events
pingtimer_cb(events) == "mqtt_notify_pingtimer"

\* lines 55-64: acktimer_cb calls mqtt_notify_acktimer, whatever the events
acktimer_cb(events) == "mqtt_notify_acktimer"

\* the loop calls the callback a watcher was registered with (w->cb)
Callback(name, events) ==
    CASE name = "sockfd_cb" -> sockfd_cb(events)
      [] name = "pingtimer_cb" -> pingtimer_cb(events)
      [] name = "acktimer_cb" -> acktimer_cb(events)

\* the callback of watcher w runs up to its first call into the MQTT client,
\* or returns when it has no call to make
Enter(wname, w, events) ==
    LET call == Callback(w.cb, events)
    IN  /\ notified' = IF call = "none" THEN <<>> ELSE <<call>>
        /\ cb' = [name |-> w.cb, watcher |-> wname, events |-> events,
                  active |-> call # "none"]
        /\ lib' = call
        /\ budget' = IF call = "none" THEN 0 ELSE MaxHookCalls

\* uev_run dispatches the socket watcher registered at lines 151-154
DispatchSockfd(events) ==
    /\ LoopIdle
    /\ w_sockfd.registered
    /\ events \in IoEvents(w_sockfd)
    /\ Enter("w_sockfd", w_sockfd, events)
    /\ op' = "DispatchSockfd"
    /\ UNCHANGED <<published, pc, argVars, sockfd, client, watchVars, now, hookVars, log,
                   failed, exitVars>>

\* uev_run dispatches the timer watcher registered at lines 156-159
DispatchPingTimer(events) ==
    /\ LoopIdle
    /\ w_pingtimer.registered
    /\ events \in TimerEvents(w_pingtimer)
    /\ w_pingtimer' = Disarm(w_pingtimer)
    /\ Enter("w_pingtimer", w_pingtimer, events)
    /\ op' = "DispatchPingTimer"
    /\ UNCHANGED <<published, pc, argVars, sockfd, client, w_sockfd, w_acktimer, now,
                   hookVars, log, failed, exitVars>>

\* uev_run dispatches the timer watcher registered at lines 161-164
DispatchAckTimer(events) ==
    /\ LoopIdle
    /\ w_acktimer.registered
    /\ events \in TimerEvents(w_acktimer)
    /\ w_acktimer' = Disarm(w_acktimer)
    /\ Enter("w_acktimer", w_acktimer, events)
    /\ op' = "DispatchAckTimer"
    /\ UNCHANGED <<published, pc, argVars, sockfd, client, w_sockfd, w_pingtimer, now,
                   hookVars, log, failed, exitVars>>

\* an mqtt_notify_* call returns into its callback: sockfd_cb goes on to its
\* next call (lines 38-41); otherwise the callback returns to the loop
NotifyReturn(err) ==
    /\ pc = "loop"
    /\ cb.active
    /\ lib # "none"
    /\ client' = [client EXCEPT !.error = IF @ # MQTT_OK THEN @ ELSE err]
    /\ LET next == IF cb.name = "sockfd_cb" THEN SockfdNext(lib, cb.events)
                                             ELSE "none"
       IN  /\ lib' = next
           /\ budget' = IF next = "none" THEN 0 ELSE MaxHookCalls
           /\ notified' = IF next = "none" THEN notified ELSE Append(notified, next)
           /\ cb' = [cb EXCEPT !.active = next # "none"]
    /\ op' = "NotifyReturn"
    /\ UNCHANGED <<published, pc, argVars, sockfd, watchVars, now, hookVars, log, failed,
                   exitVars>>

---------------------------------------------------------------------------
(* publish_callback: the MQTT client calls it for every PUBLISH it receives, *)
(* while mqtt_notify_recv runs.  Bytes are modelled by name.                 *)

NUL == "NUL"          \* the byte '\0'

\* the PUBLISH messages the broker may send: a plain one, and one whose
\* payload (any bytes, in MQTT) holds a zero byte
Publishes ==
    { [topic |-> <<"t">>, msg |-> <<"m">>],
      [topic |-> <<"t">>, msg |-> <<"m", NUL, "m">>] }

\* what printf writes for a string argument: the bytes before the first '\0'
RECURSIVE CString(_)
CString(bytes) ==
    IF bytes = <<>> \/ Head(bytes) = NUL THEN <<>>
    ELSE <<Head(bytes)>> \o CString(Tail(bytes))

\* lines 194-204.  mem is what malloc returns: with NULL the memcpy at line
\* 198 and the store at line 199 write through a null pointer and the process
\* dies there.  Otherwise topic_name is the topic followed by '\0', printed
\* with %s, and the message is printed with %.*s, which stops at
\* application_message_size bytes or at a '\0', whichever comes first.
publish_callback(p, mem) ==
    /\ pc = "loop"
    /\ lib = "mqtt_notify_recv"
    /\ budget > 0
    /\ IF mem = "NULL"
       THEN /\ published' = [NoPublish EXCEPT !.delivered = TRUE,
                                               !.topic = p.topic, !.msg = p.msg]
            /\ pc' = "crashed"
            /\ budget' = 0
       ELSE LET topic_name == p.topic \o <<NUL>>
                printedTopic == CString(topic_name)
                printedMsg == CString(SubSeq(p.msg, 1, Len(p.msg)))
            IN  /\ published' =
                      [delivered |-> TRUE, topic |-> p.topic, msg |-> p.msg,
                       printedTopic |-> printedTopic, printedMsg |-> printedMsg,
                       lines |-> 1,
                       mallocs |-> 1, frees |-> 1]
                /\ pc' = pc
                /\ budget' = budget - 1
    /\ op' = "publish_callback"
    /\ UNCHANGED <<argVars, sockfd, client, lib, cb, notified, watchVars, now,
                   hookVars, log, failed, exitVars>>

\* the clock MQTT_PAL_TIME() reads advances
Tick ==
    /\ pc # "done"
    /\ now < StartTime + MaxTicks
    /\ now' = now + 1
    /\ op' = "Tick"
    /\ UNCHANGED <<pc, argVars, sockfd, client, lib, budget, cbVars, watchVars,
                   hookVars, log, failed, exitVars>>

---------------------------------------------------------------------------

Errors == {MQTT_OK, MQTT_ERROR}

Next ==
    \/ ParseArgs
    \/ \E ok \in BOOLEAN : UevInit(ok)
    \/ \E fd \in Fds \cup {NoFd} : OpenSocket(fd)
    \/ MqttInit
    \/ MqttConnect
    \/ \E err \in Errors : MqttConnectReturn(err)
    \/ CheckError
    \/ \E ok \in BOOLEAN : UevIoInit(ok)
    \/ \E ok \in BOOLEAN : PingTimerInit(ok)
    \/ \E ok \in BOOLEAN : AckTimerInit(ok)
    \/ MqttSubscribe
    \/ \E err \in Errors : MqttSubscribeReturn(err)
    \/ UevRun
    \/ \E rc \in {0, 0 - 1} : UevRunReturn(rc)
    \/ \E t \in Deadlines(now) : set_ping_timer(t)
    \/ \E t \in Deadlines(now) : set_ack_timeout(t)
    \/ \E enabled \in {0, 1} : enable_sendready_event(enabled)
    \/ \E events \in SUBSET AllEvents : DispatchSockfd(events)
    \/ \E events \in SUBSET AllEvents : DispatchPingTimer(events)
    \/ \E events \in SUBSET AllEvents : DispatchAckTimer(events)
    \/ \E err \in Errors : NotifyReturn(err)
    \/ \E p \in Publishes, mem \in {"buffer", "NULL"} : publish_callback(p, mem)
    \/ Tick

Spec == Init /\ [][Next]_vars

\* uev_run expires a timer that is armed (timeout > 0), with UEV_READ
ExpireArmedTimer == DispatchPingTimer({UEV_READ}) \/ DispatchAckTimer({UEV_READ})

\* the program under an event loop that keeps dispatching: armed timers
\* expire and the MQTT client's notification functions return
SpecFair ==
    /\ Init /\ [][Next]_vars
    /\ WF_vars(ExpireArmedTimer)
    /\ WF_vars(\E err \in Errors : NotifyReturn(err))

\* the command-line handling alone, over every command line
NextArgs == ParseArgs

SpecArgs == InitArgs /\ [][NextArgs]_vars

---------------------------------------------------------------------------
(* Properties *)

exited == exitStatus # <<>>

\* C1: the exit status is 1 whenever a setup step failed (uev_init,
\* open_nb_socket, the MQTT client's error after CONNECT or after SUBSCRIBE,
\* a watcher init) and 0 when every setup step succeeded and uev_run returned.
C1_ExitStatus ==
    exited => exitStatus = <<IF failed # {} THEN EXIT_FAILURE ELSE EXIT_SUCCESS>>

\* C2: once a setup step has failed, main makes no further setup call and
\* does not enter uev_run; and no setup call is made twice.
C2_FatalImmediate ==
    [][/\ failed # {} => log' = log
       /\ \A i, j \in 1..Len(log') : log'[i] = log'[j] => i = j]_vars

\* C3: the process terminates through exit_example only, exactly once; by then
\* the socket has been closed exactly once if one was opened, and close is
\* never called when there is no socket (sockfd == -1) or before the exit.
C3_ExitClosesSocket ==
    /\ exited <=> pc = "done"
    /\ exits = (IF exited THEN 1 ELSE 0)
    /\ closed = (IF exited /\ sockfd # NoFd THEN <<sockfd>> ELSE <<>>)

C3_Witness == exited /\ sockfd \in Fds /\ closed = <<sockfd>> /\ exits = 1

\* C4: a set_ack_timeout request arms w_acktimer with the requested timeout
\* and leaves w_pingtimer unchanged; a set_ping_timer request arms w_pingtimer
\* and leaves w_acktimer unchanged.
C4_TimersSeparate ==
    [][/\ (op' = "set_ack_timeout" /\ w_acktimer.registered)
            => /\ w_acktimer'.timeout = lastSet'.timeout
               /\ w_pingtimer' = w_pingtimer
       /\ (op' = "set_ping_timer" /\ w_pingtimer.registered)
            => /\ w_pingtimer'.timeout = lastSet'.timeout
               /\ w_acktimer' = w_acktimer]_vars

\* C5: for every command line, addr is argv[1] if argc > 1 and
\* "test.mosquitto.org" otherwise, port is argv[2] if argc > 2 and "1883"
\* otherwise, topic is argv[3] if argc > 3 and "datetime" otherwise; each
\* depends on argc and its own argument only.
C5_ArgDefaults ==
    pc # "args" =>
        /\ addr = (IF argc > 1 THEN argv[2] ELSE "test.mosquitto.org")
        /\ port = (IF argc > 2 THEN argv[3] ELSE "1883")
        /\ topic = (IF argc > 3 THEN argv[4] ELSE "datetime")

C5_Witness ==
    /\ pc # "args" /\ argc = 5
    /\ addr = argv[2] /\ port = argv[3] /\ topic = argv[4]
    /\ argv[2] # argv[3] /\ argv[3] # argv[4] /\ argv[5] # argv[4]

\* the setup calls of a run that reaches the event loop, in order
FullSetup ==
    << Call("uev_init", ""), Call("open_nb_socket", addr),
       Call("mqtt_init", ""), Call("install_hooks", ""),
       Call("mqtt_connect", ""),
       Call("uev_io_init", ""), Call("uev_timer_init", "w_pingtimer"),
       Call("uev_timer_init", "w_acktimer"),
       Call("mqtt_subscribe", topic), Call("uev_run", "") >>

\* C6: in every run that reaches the event loop the setup calls were made in
\* this order, each once: client init and hooks, CONNECT, the three watchers,
\* one SUBSCRIBE for the chosen topic, uev_run; and no callback is dispatched
\* before that.
C6_SetupOrder ==
    (pc = "loop" \/ cb.name # "none"
        \/ \E i \in 1..Len(log) : log[i].call = "uev_run")
      => log = FullSetup

C6_Witness == pc = "loop" /\ cb.name = "sockfd_cb" /\ log = FullSetup /\ argc = 4

\* the notifications sockfd_cb makes for a mask, in order
SockfdExpected(events) ==
    (IF UEV_READ \in events THEN <<"mqtt_notify_recv">> ELSE <<>>)
      \o (IF UEV_WRITE \in events THEN <<"mqtt_notify_send">> ELSE <<>>)

IsPrefix(s, t) == Len(s) <= Len(t) /\ SubSeq(t, 1, Len(s)) = s

\* C7: for every mask delivered to sockfd_cb, mqtt_notify_recv is called once
\* iff UEV_READ is set, mqtt_notify_send once iff UEV_WRITE is set, recv before
\* send; the callback itself changes no watcher and does not leave the loop,
\* and UEV_ERROR alone makes no notification.
C7_SockfdForwards ==
    [][/\ cb'.name = "sockfd_cb" =>
            /\ IsPrefix(notified', SockfdExpected(cb'.events))
            /\ ~cb'.active => notified' = SockfdExpected(cb'.events)
            /\ cb'.active => lib' = notified'[Len(notified')]
       /\ op' = "DispatchSockfd" => watchVars' = watchVars /\ pc' = "loop"
       /\ (op' = "NotifyReturn" /\ cb.name = "sockfd_cb")
            => watchVars' = watchVars /\ pc' = "loop"]_vars

C7_Witness ==
    /\ cb.name = "sockfd_cb" /\ ~cb.active
    /\ cb.events = {UEV_READ, UEV_WRITE, UEV_ERROR}
    /\ notified = <<"mqtt_notify_recv", "mqtt_notify_send">>

\* C8: every dispatch of the ping timer calls mqtt_notify_pingtimer once and
\* nothing else, every dispatch of the ack timer calls mqtt_notify_acktimer
\* once and nothing else, with or without UEV_ERROR in the events.
C8_TimersForward ==
    /\ cb.watcher = "w_pingtimer" => notified = <<"mqtt_notify_pingtimer">>
    /\ cb.watcher = "w_acktimer" => notified = <<"mqtt_notify_acktimer">>
    /\ (cb.watcher \in {"w_pingtimer", "w_acktimer"} /\ cb.active)
          => lib = notified[1]

C8_Witness ==
    /\ cb.watcher = "w_pingtimer" /\ cb.events = {UEV_READ} /\ ~cb.active
    /\ notified = <<"mqtt_notify_pingtimer">>

C10_TimeoutValue ==
    lastSet.hook # "none" =>
        /\ lastSet.period = 0
        /\ lastSet.t = 0 => lastSet.timeout = 0
        /\ lastSet.t # 0 =>
              /\ lastSet.timeout % SecToMs = 0
              /\ lastSet.timeout \div SecToMs = lastSet.t - lastSet.now

\* C11: every PUBLISH delivered to publish_callback prints one line with the
\* whole topic name (topic_name_size bytes) and the whole application message
\* (application_message_size bytes); the one buffer it allocates is freed
\* before it returns; it changes neither the MQTT client nor any watcher.
C11_PublishPrinted ==
    [][op' = "publish_callback" =>
          /\ published'.delivered
          /\ published'.lines = 1
          /\ published'.printedTopic = published'.topic
          /\ published'.printedMsg = published'.msg
          /\ published'.mallocs = 1 /\ published'.frees = 1
          /\ pc' = "loop"
          /\ client' = client /\ watchVars' = watchVars]_vars

\* C12: every set_ping_timer, set_ack_timeout and enable_sendready_event call
\* comes after uev_timer_init / uev_io_init has registered the watcher the
\* call modifies.
C12_HooksAfterInit ==
    /\ lastSet.hook # "none" => lastSet.registered
    /\ lastEnable.called => lastEnable.registered

\* C13: the timeout a timer hook passes to uev_timer_set is never negative
\* and is the exact product (t - now) * 1000, never a wrapped value, for
\* every deadline t, passed or far ahead.
C13_TimeoutInRange ==
    (lastSet.hook # "none" /\ lastSet.t # 0) =>
        /\ lastSet.timeout >= 0
        /\ lastSet.timeout \div SecToMs = lastSet.t - lastSet.now
        /\ lastSet.timeout % SecToMs = 0

\* C14: in the running loop, a set_ack_timeout request with a nonzero
\* deadline leads to acktimer_cb being invoked, unless the request is
\* cancelled by set_ack_timeout(0) (or the loop ends).
C14_AckTimeoutNotified ==
    (pc = "loop" /\ op = "set_ack_timeout" /\ lastSet.t # 0)
      ~> \/ op = "DispatchAckTimer"
         \/ op = "set_ack_timeout" /\ lastSet.t = 0
         \/ pc # "loop"

====
